---- MODULE Spec2Model ----
(***************************************************************************)
(* Model of the execution and grading engine of src/main.py:               *)
(*   find_exercise, run_user_code_capture_stdout, run_user_code_and_eval   *)
(*   and evaluate, together with the child interpreter process that runs   *)
(*   the temporary file.                                                   *)
(*                                                                         *)
(* Text (stdout, stderr, feedback) is a sequence of tokens; Python/JSON    *)
(* values are tagged records; json.dumps / json.loads are a serializer to  *)
(* tokens and a recursive-descent parser over tokens.                      *)
(*                                                                         *)
(* Spec runs one call of evaluate after the other, FairSpec adds the       *)
(* scheduling assumptions, ConcSpec runs two calls at the same time.  The  *)
(* temporary directory (the files of the runner and the modules candidate  *)
(* programs leave there) is the state the calls share.                     *)
(***************************************************************************)
EXTENDS Integers, Sequences, FiniteSets, TLC

\* ------------------------------------------------------------------------
\* Text: sequences of tokens
\* ------------------------------------------------------------------------
Tok(k, s, n) == [k |-> k, s |-> s, n |-> n]
W(s)    == Tok("w", s, 0)        \* a run of plain characters
Num(n)  == Tok("num", "", n)     \* a decimal numeral
P(s)    == Tok("p", s, 0)        \* JSON punctuation  { } [ ] , :
QStr(s) == Tok("str", s, 0)      \* a double-quoted string literal
NL      == Tok("nl", "", 0)      \* newline

\* the text of a Python str whose characters are s ("" is the empty text)
TextOf(s) == IF s = "" THEN <<>> ELSE <<W(s)>>

\* ------------------------------------------------------------------------
\* Python / JSON values
\* ------------------------------------------------------------------------
PyNone      == [t |-> "none"]
PyBool(b)   == [t |-> "bool", b |-> b]
PyInt(n)    == [t |-> "int", n |-> n]
PyStr(s)    == [t |-> "str", s |-> s]
PyText(x)  == [t |-> "text", x |-> x]   \* a str holding process output
PyList(xs)  == [t |-> "list", xs |-> xs]
PyDict(kv)  == [t |-> "dict", kv |-> kv] \* insertion-ordered <<key, value>> pairs
PyObject    == [t |-> "object"]          \* a value json cannot serialize (a set)

\* dict operations
Has(d, key) == \E i \in 1..Len(d.kv) : d.kv[i][1] = key
Get(d, key) ==
    IF Has(d, key)
    THEN d.kv[CHOOSE i \in 1..Len(d.kv) : d.kv[i][1] = key][2]
    ELSE PyNone
SetItem(d, key, v) ==
    IF Has(d, key)
    THEN PyDict([i \in 1..Len(d.kv) |->
                 IF d.kv[i][1] = key THEN <<key, v>> ELSE d.kv[i]])
    ELSE PyDict(Append(d.kv, <<key, v>>))

\* bool(v)
Truthy(v) ==
    CASE v.t = "none"   -> FALSE
      [] v.t = "bool"   -> v.b
      [] v.t = "int"    -> v.n # 0
      [] v.t = "str"    -> v.s # ""
      [] v.t = "text"   -> Len(v.x) > 0
      [] v.t = "list"   -> Len(v.xs) > 0
      [] v.t = "dict"   -> Len(v.kv) > 0
      [] OTHER          -> TRUE

IsNumber(v) == v.t \in {"int", "bool"}
NumOf(v) == IF v.t = "int" THEN v.n ELSE IF v.b THEN 1 ELSE 0

\* val == expected  (the expected side is a literal of the catalog)
PyEq(a, b) ==
    CASE IsNumber(a) /\ IsNumber(b)     -> NumOf(a) = NumOf(b)
      [] a.t = "str" /\ b.t = "str"     -> a.s = b.s
      [] a.t = "none" /\ b.t = "none"   -> TRUE
      [] OTHER                          -> FALSE

\* str(v) and repr(v) as text
StrText(v) ==
    CASE v.t = "none"   -> <<W("None")>>
      [] v.t = "bool"   -> IF v.b THEN <<W("True")>> ELSE <<W("False")>>
      [] v.t = "int"    -> <<Num(v.n)>>
      [] v.t = "str"    -> TextOf(v.s)
      [] v.t = "text"   -> v.x
      [] v.t = "list"   -> IF Len(v.xs) = 0 THEN <<W("[]")>> ELSE <<W("[...]")>>
      [] v.t = "dict"   -> IF Len(v.kv) = 0 THEN <<W("{}")>> ELSE <<W("{...}")>>
      [] OTHER          -> <<W("<object>")>>

\* repr of a text: quoted, newlines escaped
ReprText(x) ==
    <<W("'")>>
    \o [i \in 1..Len(x) |-> IF x[i].k = "nl" THEN W("\\n") ELSE x[i]]
    \o <<W("'")>>

ReprValue(v) ==
    CASE v.t = "str"    -> ReprText(TextOf(v.s))
      [] v.t = "text"   -> ReprText(v.x)
      [] OTHER          -> StrText(v)

\* ------------------------------------------------------------------------
\* json.dumps: value -> tokens (TypeError on a value json cannot serialize)
\* ------------------------------------------------------------------------
RECURSIVE Serializable(_)
Serializable(v) ==
    CASE v.t \in {"object", "text"} -> FALSE
      [] v.t = "list" -> \A i \in 1..Len(v.xs) : Serializable(v.xs[i])
      [] v.t = "dict" -> \A i \in 1..Len(v.kv) : Serializable(v.kv[i][2])
      [] OTHER        -> TRUE

RECURSIVE JsonTokens(_)
RECURSIVE JsonItems(_, _)
RECURSIVE JsonMembers(_, _)
JsonTokens(v) ==
    CASE v.t = "none" -> <<W("null")>>
      [] v.t = "bool" -> IF v.b THEN <<W("true")>> ELSE <<W("false")>>
      [] v.t = "int"  -> <<Num(v.n)>>
      [] v.t = "str"  -> <<QStr(v.s)>>
      [] v.t = "list" -> <<P("[")>> \o JsonItems(v.xs, 1) \o <<P("]")>>
      [] v.t = "dict" -> <<P("{")>> \o JsonMembers(v.kv, 1) \o <<P("}")>>
      [] OTHER        -> <<>>
JsonItems(xs, i) ==
    IF i > Len(xs) THEN <<>>
    ELSE (IF i > 1 THEN <<P(",")>> ELSE <<>>)
         \o JsonTokens(xs[i]) \o JsonItems(xs, i + 1)
JsonMembers(kv, i) ==
    IF i > Len(kv) THEN <<>>
    ELSE (IF i > 1 THEN <<P(",")>> ELSE <<>>)
         \o <<QStr(kv[i][1]), P(":")>> \o JsonTokens(kv[i][2])
         \o JsonMembers(kv, i + 1)

\* ------------------------------------------------------------------------
\* Parsing tokens back to a value.  mode "json" is json.loads; mode "py" is
\* the Python evaluation of the same text as a literal in program source,
\* where the bare words true, false and null are undefined names.
\* Result: [ok, v, n (next index), err]
\* ------------------------------------------------------------------------
PFail(msg)  == [ok |-> FALSE, v |-> PyNone, n |-> 0, err |-> msg]
POk(v, n)   == [ok |-> TRUE, v |-> v, n |-> n, err |-> ""]

ParseWord(s, mode, n) ==
    IF mode = "json"
    THEN CASE s = "true"  -> POk(PyBool(TRUE), n)
           [] s = "false" -> POk(PyBool(FALSE), n)
           [] s = "null"  -> POk(PyNone, n)
           [] OTHER       -> PFail("Expecting value")
    ELSE CASE s = "True"  -> POk(PyBool(TRUE), n)
           [] s = "False" -> POk(PyBool(FALSE), n)
           [] s = "None"  -> POk(PyNone, n)
           [] OTHER       -> PFail("name '" \o s \o "' is not defined")

\* F applied to the value of e, with e computed once
With(e, F(_)) == CHOOSE y \in { F(x) : x \in {e} } : TRUE

RECURSIVE ParseValue(_, _, _)
RECURSIVE ParseItems(_, _, _, _)
RECURSIVE ParseMembers(_, _, _, _)
ParseValue(ts, i, mode) ==
    IF i > Len(ts) THEN PFail("Expecting value")
    ELSE LET tok == ts[i] IN
         CASE tok.k = "num" -> POk(PyInt(tok.n), i + 1)
           [] tok.k = "str" -> POk(PyStr(tok.s), i + 1)
           [] tok.k = "w"   -> ParseWord(tok.s, mode, i + 1)
           [] tok.k = "p" /\ tok.s = "[" ->
                IF i + 1 <= Len(ts) /\ ts[i + 1] = P("]")
                THEN POk(PyList(<<>>), i + 2)
                ELSE ParseItems(ts, i + 1, mode, <<>>)
           [] tok.k = "p" /\ tok.s = "{" ->
                IF i + 1 <= Len(ts) /\ ts[i + 1] = P("}")
                THEN POk(PyDict(<<>>), i + 2)
                ELSE ParseMembers(ts, i + 1, mode, PyDict(<<>>))
           [] OTHER -> PFail("Expecting value")
\* a value is expected at i; then "," (another item) or "]"
ParseItems(ts, i, mode, acc) ==
    LET After(r) ==
            IF ~r.ok THEN r
            ELSE IF r.n > Len(ts) THEN PFail("Expecting ',' delimiter")
            ELSE IF ts[r.n] = P("]") THEN POk(PyList(Append(acc, r.v)), r.n + 1)
            ELSE IF ts[r.n] = P(",")
                 THEN ParseItems(ts, r.n + 1, mode, Append(acc, r.v))
            ELSE PFail("Expecting ',' delimiter")
    IN With(ParseValue(ts, i, mode), After)
\* a "key": value member is expected at i; then "," or "}"
ParseMembers(ts, i, mode, acc) ==
    LET After(r) ==
            IF ~r.ok THEN r
            ELSE IF r.n > Len(ts) THEN PFail("Expecting ',' delimiter")
            ELSE IF ts[r.n] = P("}")
                 THEN POk(SetItem(acc, ts[i].s, r.v), r.n + 1)
            ELSE IF ts[r.n] = P(",")
                 THEN ParseMembers(ts, r.n + 1, mode, SetItem(acc, ts[i].s, r.v))
            ELSE PFail("Expecting ',' delimiter")
    IN IF i + 1 > Len(ts) \/ ts[i].k # "str" \/ ts[i + 1] # P(":")
       THEN PFail("Expecting property name")
       ELSE With(ParseValue(ts, i + 2, mode), After)

NotNL(tok) == tok.k # "nl"

\* json.loads(text): whitespace between tokens is skipped, exactly one
\* document must span the whole text, otherwise JSONDecodeError (ok = FALSE)
JsonLoads(text) ==
    LET Whole(ts) ==
            LET End(r) == IF r.ok /\ r.n # Len(ts) + 1 THEN PFail("Extra data")
                          ELSE r
            IN With(ParseValue(ts, 1, "json"), End)
    IN With(SelectSeq(text, NotNL), Whole)

\* evaluation of json.dumps(checks) spliced into the harness source
PyEvalLiteral(ts) == ParseValue(ts, 1, "py")


\* ------------------------------------------------------------------------
\* The exercise catalog
\* ------------------------------------------------------------------------
\* a tests dictionary; a key an exercise does not have holds the default
\* that tests.get(...) returns for it
Tests(type, expected, preset, checks) ==
    [type |-> type, expected |-> expected, preset |-> preset, checks |-> checks]

Check(expr, equals) == PyDict(<< <<"expr", PyStr(expr)>>, <<"equals", equals>> >>)

\* program text is a sequence of statements
Blank           == [op |-> "blank"]
Assign(name, n) == [op |-> "assign", name |-> name, n |-> n]

CHAPTERS ==
    << [id |-> "basics", exercises |-> <<
          [id |-> "print-hello",
           tests |-> Tests("stdout", <<W("Hello, World!"), NL>>, <<>>, <<>>)],
          [id |-> "variables-sum",
           tests |-> Tests("stdout", <<Num(12), NL>>, <<>>, <<>>)] >>],
       [id |-> "functions", exercises |-> <<
          [id |-> "def-add",
           tests |-> Tests("eval", <<>>, <<>>,
                           << Check("add(2, 3)", PyInt(5)),
                              Check("add(-1, 1)", PyInt(0)),
                              Check("add(10, 5)", PyInt(15)) >>)],
          [id |-> "def-greet",
           tests |-> Tests("eval", <<>>, <<>>,
                           << Check("greet('Ada')", PyStr("Hello, Ada!")),
                              Check("greet('Bob')", PyStr("Hello, Bob!")) >>)] >>],
       [id |-> "loops", exercises |-> <<
          [id |-> "sum-1-to-n",
           tests |-> Tests("stdout_with_preset", <<Num(15), NL>>,
                           <<Assign("n", 5)>>, <<>>)] >>] >>

\* A chapter the catalog of the source does not have.  The dispatch of
\* evaluate and the harness text are written for any catalog: this chapter
\* holds an exercise whose test type evaluate does not know, and an eval
\* exercise whose expected values are a boolean and None.
ExtraChapter ==
    [id |-> "extra", exercises |-> <<
       [id |-> "quiz",
        tests |-> Tests("quiz", <<>>, <<>>, <<>>)],
       [id |-> "def-flag",
        tests |-> Tests("eval", <<>>, <<>>,
                        << Check("flag()", PyBool(TRUE)),
                           Check("nothing()", PyNone) >>)] >>]

\* the catalogs a deployment runs with: the one of the source, and the same
\* with the extra chapter appended
Catalogs == { CHAPTERS, CHAPTERS \o <<ExtraChapter>> }

NoExercise == [id |-> "", tests |-> Tests("", <<>>, <<>>, <<>>)]

\* ------------------------------------------------------------------------
\* Candidate programs: the statements of the program text
\* ------------------------------------------------------------------------
PrintText(x)    == [op |-> "print", x |-> x]      \* print(...)
WriteText(x)    == [op |-> "write", x |-> x]      \* print(..., end="")
PrintSum(name)  == [op |-> "printsum", name |-> name] \* print(sum(range(1, n+1)))
Raise(msg)      == [op |-> "raise", msg |-> msg]  \* raise Exception(msg)
SysExit(code)   == [op |-> "exit", code |-> code] \* raise SystemExit(code)
Loop            == [op |-> "loop"]                \* while True: pass
Def(name, body) == [op |-> "def", name |-> name, body |-> body]
SyntaxErr       == [op |-> "syntax"]              \* text that does not compile
\* open(os.path.join(tempfile.gettempdir(), name + ".py"), "w").write(...):
\* the candidate leaves a module of its own in the temporary directory
PlantModule(name) == [op |-> "plant", name |-> name]

\* what dumps of the module a candidate planted as json returns, whatever
\* its argument:  def dumps(x, *a, **k): return '{"ok": true}'
PlantedDumps == <<P("{"), QStr("ok"), P(":"), W("true"), P("}")>>

\* namespace bindings
IntBinding(n)     == [kind |-> "int", n |-> n, body |-> ""]
FuncBinding(body) == [kind |-> "func", n |-> 0, body |-> body]
Bind(ns, name, b) ==
    [x \in (DOMAIN ns) \cup {name} |-> IF x = name THEN b ELSE ns[x]]

\* outcome of running one statement or evaluating one expression
Outcome(kind, v, exc, msg, out, code) ==
    [kind |-> kind, v |-> v, exc |-> exc, msg |-> msg, out |-> out, code |-> code]
Value(v, out)     == Outcome("value", v, "", "", out, 0)
Raised(exc, msg)  == Outcome("raise", PyNone, exc, msg, <<>>, 0)
Exits(code)       == Outcome("exit", PyNone, "", "", <<>>, code)
Hangs             == Outcome("loop", PyNone, "", "", <<>>, 0)

\* the bodies a candidate gives its functions
CallFunction(body, args) ==
    CASE body = "sum" ->               \* return a + b
           IF Len(args) = 2 THEN Value(PyInt(args[1].n + args[2].n), <<>>)
           ELSE Raised("TypeError", "missing argument")
      [] body = "zero" -> Value(PyInt(0), <<>>)      \* return 0
      [] body = "sum_nonneg" ->        \* raises for a negative argument
           IF Len(args) # 2 THEN Raised("TypeError", "missing argument")
           ELSE IF args[1].n < 0 \/ args[2].n < 0
                THEN Raised("ValueError", "negative")
                ELSE Value(PyInt(args[1].n + args[2].n), <<>>)
      [] body = "print_sum" ->         \* print(a + b); return a + b
           IF Len(args) = 2
           THEN Value(PyInt(args[1].n + args[2].n),
                      <<Num(args[1].n + args[2].n), NL>>)
           ELSE Raised("TypeError", "missing argument")
      [] body = "set" -> Value(PyObject, <<>>)       \* return {a + b}
      [] body = "raise_empty" -> Raised("Exception", "")
      [] body = "exit" -> Exits(0)                   \* raise SystemExit(0)
      [] body = "loop" -> Hangs
      [] body = "greet" ->             \* return "Hello, " + name + "!"
           IF Len(args) = 1 THEN Value(PyStr("Hello, " \o args[1].s \o "!"), <<>>)
           ELSE Raised("TypeError", "missing argument")
      [] body = "true" -> Value(PyBool(TRUE), <<>>)  \* return True
      [] body = "none" -> Value(PyNone, <<>>)        \* return None
      [] OTHER -> Raised("Exception", "boom")

\* the call an expression of the catalog denotes
ParseExpr(expr) ==
    CASE expr = "add(2, 3)"    -> [fn |-> "add", args |-> <<PyInt(2), PyInt(3)>>]
      [] expr = "add(-1, 1)"   -> [fn |-> "add", args |-> <<PyInt(-1), PyInt(1)>>]
      [] expr = "add(10, 5)"   -> [fn |-> "add", args |-> <<PyInt(10), PyInt(5)>>]
      [] expr = "greet('Ada')" -> [fn |-> "greet", args |-> <<PyStr("Ada")>>]
      [] expr = "greet('Bob')" -> [fn |-> "greet", args |-> <<PyStr("Bob")>>]
      [] expr = "flag()"       -> [fn |-> "flag", args |-> <<>>]
      [] expr = "nothing()"    -> [fn |-> "nothing", args |-> <<>>]
      [] OTHER                 -> [fn |-> "", args |-> <<>>]

\* eval(expr, ns, ns)
EvalExpr(expr, ns) ==
    LET c == ParseExpr(expr) IN
    IF c.fn \notin DOMAIN ns
    THEN Raised("NameError", "name '" \o c.fn \o "' is not defined")
    ELSE IF ns[c.fn].kind # "func"
    THEN Raised("TypeError", "'int' object is not callable")
    ELSE CallFunction(ns[c.fn].body, c.args)

\* one top-level statement run in namespace ns; the outcome's v is unused
ExecStmt(stmt, ns) ==
    CASE stmt.op = "print" -> Value(PyNone, stmt.x \o <<NL>>)
      [] stmt.op = "write" -> Value(PyNone, stmt.x)
      [] stmt.op = "printsum" ->
           IF stmt.name \in DOMAIN ns /\ ns[stmt.name].kind = "int"
           THEN Value(PyNone,
                      <<Num((ns[stmt.name].n * (ns[stmt.name].n + 1)) \div 2), NL>>)
           ELSE Raised("NameError", "name '" \o stmt.name \o "' is not defined")
      [] stmt.op = "raise" -> Raised("Exception", stmt.msg)
      [] stmt.op = "exit"  -> Exits(stmt.code)
      [] stmt.op = "loop"  -> Hangs
      [] OTHER             -> Value(PyNone, <<>>)   \* blank, assign, def, plant
ExecBind(stmt, ns) ==
    CASE stmt.op = "assign" -> Bind(ns, stmt.name, IntBinding(stmt.n))
      [] stmt.op = "def"    -> Bind(ns, stmt.name, FuncBinding(stmt.body))
      [] OTHER              -> ns

Compiles(code) == \A i \in 1..Len(code) : code[i].op # "syntax"

\* what the interpreter writes to stderr for an uncaught exception
Traceback(exc, msg) ==
    <<W("Traceback (most recent call last):"), NL, W(exc)>>
    \o (IF msg = "" THEN <<>> ELSE <<W(": " \o msg)>>) \o <<NL>>


\* ------------------------------------------------------------------------
\* run_user_code_and_eval: the harness text
\* ------------------------------------------------------------------------
\* {code!r}: the candidate code as a quoted string literal
StrLiteral(code) == [quoted |-> code]

\* the f-string of the harness: the candidate code and json.dumps(checks)
\* spliced into the fixed program text
Harness(code, checks) ==
    << [op |-> "harness", code |-> StrLiteral(code),
        checks |-> JsonTokens(PyList(checks))] >>

\* a program body with the candidate code in front of the preset
FinalCode_CodeFirst(preset, code) == code \o <<Blank>> \o preset

\* final_code = preset + "\n" + code
FinalCode(preset, code) == preset \o <<Blank>> \o code

\* ------------------------------------------------------------------------
\* The child interpreter process running one temporary file
\* ------------------------------------------------------------------------
EmptyNs == [x \in {} |-> IntBinding(0)]

NoChild ==
    [state |-> "none", prog |-> <<>>, ip |-> 1, ns |-> EmptyNs,
     out |-> <<>>, err |-> <<>>, rc |-> 0,
     hpc |-> "", hip |-> 1, items |-> <<>>, results |-> <<>>, ok |-> TRUE,
     json |-> "stdlib"]

StartChild(prog) == [NoChild EXCEPT !.state = "running", !.prog = prog]

ExitChild(c, rc) == [c EXCEPT !.state = "exited", !.rc = rc]

\* except Exception as e: print(json.dumps({'ok': False, 'error': str(e),
\*                                          'results': []}))
OuterExcept(c, msg) ==
    ExitChild([c EXCEPT !.out = c.out
                 \o (IF c.json = "planted" THEN PlantedDumps
                     ELSE JsonTokens(PyDict(<< <<"ok", PyBool(FALSE)>>,
                                               <<"error", PyStr(msg)>>,
                                               <<"results", PyList(<<>>)>> >>)))
                 \o <<NL>>], 0)

\* results.append({'expr': expr, 'value': val, 'expected': expected, 'pass': eq})
ValueResult(expr, val, expected) ==
    PyDict(<< <<"expr", expr>>, <<"value", val>>, <<"expected", expected>>,
              <<"pass", PyBool(PyEq(val, expected))>> >>)
\* results.append({'expr': expr, 'error': str(e), 'pass': False})
ErrorResult(expr, msg) ==
    PyDict(<< <<"expr", expr>>, <<"error", PyStr(msg)>>,
              <<"pass", PyBool(FALSE)>> >>)

\* print(json.dumps({'ok': ok, 'results': results}))
PrintPayload(c) ==
    LET payload == PyDict(<< <<"ok", PyBool(c.ok)>>,
                             <<"results", PyList(c.results)>> >>)
    IN IF c.json = "planted"
       THEN ExitChild([c EXCEPT !.out = c.out \o PlantedDumps \o <<NL>>], 0)
       ELSE IF Serializable(payload)
       THEN ExitChild([c EXCEPT !.out = c.out \o JsonTokens(payload) \o <<NL>>], 0)
       ELSE OuterExcept(c, "Object of type set is not JSON serializable")

\* one step of the harness statement h
HarnessStep(c, h) ==
    LET code == h.code.quoted IN
    CASE c.hpc = "" ->                       \* compile(code, '<user>', 'exec')
           IF Compiles(code)
           THEN [c EXCEPT !.hpc = "load", !.hip = 1, !.ns = EmptyNs,
                          !.results = <<>>]
           ELSE OuterExcept(c, "invalid syntax (<user>, line 1)")
      [] c.hpc = "load" /\ c.hip <= Len(code) ->       \* exec(..., ns, ns)
           LET o == ExecStmt(code[c.hip], c.ns) IN
           CASE o.kind = "value" ->
                  [c EXCEPT !.out = c.out \o o.out,
                            !.ns = ExecBind(code[c.hip], c.ns),
                            !.hip = c.hip + 1]
             [] o.kind = "raise" -> OuterExcept(c, o.msg)
             [] o.kind = "exit"  -> ExitChild(c, o.code)
             [] OTHER            -> [c EXCEPT !.state = "looping"]
      [] c.hpc = "load" /\ c.hip > Len(code) ->        \* ok = True; for item in [...]
           LET r == PyEvalLiteral(h.checks) IN
           IF r.ok
           THEN [c EXCEPT !.hpc = "checks", !.hip = 1, !.ok = TRUE,
                          !.items = r.v.xs]
           ELSE OuterExcept(c, r.err)
      [] c.hpc = "checks" /\ c.hip <= Len(c.items) ->  \* the loop body
           LET expr     == Get(c.items[c.hip], "expr")
               expected == Get(c.items[c.hip], "equals")
               o        == EvalExpr(expr.s, c.ns)
           IN
           CASE o.kind = "value" ->
                  [c EXCEPT !.out = c.out \o o.out,
                            !.results = Append(c.results,
                                               ValueResult(expr, o.v, expected)),
                            !.ok = c.ok /\ PyEq(o.v, expected),
                            !.hip = c.hip + 1]
             [] o.kind = "raise" ->
                  [c EXCEPT !.results = Append(c.results, ErrorResult(expr, o.msg)),
                            !.ok = FALSE,
                            !.hip = c.hip + 1]
             [] o.kind = "exit"  -> ExitChild(c, o.code)
             [] OTHER            -> [c EXCEPT !.state = "looping"]
      [] OTHER -> PrintPayload(c)

\* one step of the interpreter on its file
ChildStep(c) ==
    IF ~Compiles(c.prog)
    THEN ExitChild([c EXCEPT !.err = Traceback("SyntaxError", "invalid syntax")], 1)
    ELSE IF c.ip > Len(c.prog) THEN ExitChild(c, 0)
    ELSE IF c.prog[c.ip].op = "harness" THEN HarnessStep(c, c.prog[c.ip])
    ELSE LET o == ExecStmt(c.prog[c.ip], c.ns) IN
         CASE o.kind = "value" ->
                [c EXCEPT !.out = c.out \o o.out,
                          !.ns = ExecBind(c.prog[c.ip], c.ns),
                          !.ip = c.ip + 1]
           [] o.kind = "raise" ->
                ExitChild([c EXCEPT !.err = Traceback(o.exc, o.msg)], 1)
           [] o.kind = "exit"  -> ExitChild(c, o.code)
           [] OTHER            -> [c EXCEPT !.state = "looping"]

\* the next step of child c is the harness's "import json"
AtImport(c) ==
    /\ c.state = "running" /\ Compiles(c.prog) /\ c.ip <= Len(c.prog)
    /\ c.prog[c.ip].op = "harness" /\ c.hpc = ""

\* import json: the interpreter was started as "python -S <tmp_path>", so
\* the directory of the temporary file is the first entry of sys.path and a
\* json.py found there (dir: the modules planted there) shadows the library
Import(c, dir) ==
    [c EXCEPT !.json = IF "json" \in dir THEN "planted" ELSE "stdlib"]

\* the modules the next step of child c leaves in the temporary directory
Planted(c) ==
    IF c.state # "running" \/ ~Compiles(c.prog) \/ c.ip > Len(c.prog) THEN {}
    ELSE LET s == c.prog[c.ip] IN
         IF s.op = "plant" THEN {s.name}
         ELSE IF s.op = "harness" /\ c.hpc = "load"
                 /\ c.hip <= Len(s.code.quoted)
                 /\ s.code.quoted[c.hip].op = "plant"
         THEN {s.code.quoted[c.hip].name}
         ELSE {}

\* ------------------------------------------------------------------------
\* Results of the runner and of evaluate
\* ------------------------------------------------------------------------
\* the dictionary run_user_code_capture_stdout returns
ExecutionResult(rc, stdout, stderr) ==
    [returncode |-> rc, stdout |-> stdout, stderr |-> stderr]

NoOut == ExecutionResult(0, <<>>, <<>>)

\* except subprocess.TimeoutExpired: return {...}
TimeoutSentinel == ExecutionResult(124, <<>>, <<W("Execution timed out")>>)

OutDetails(out) ==
    PyDict(<< <<"returncode", PyInt(out.returncode)>>,
              <<"stdout", PyText(out.stdout)>>,
              <<"stderr", PyText(out.stderr)>> >>)

\* what a call of evaluate produced: nothing yet, an EvaluateResult, or an
\* exception leaving the handler
NoResult ==
    [kind |-> "none", passed |-> FALSE, feedback |-> <<>>, details |-> PyNone,
     exc |-> ""]
EvaluateResult(passed, feedback, details) ==
    [kind |-> "returned", passed |-> passed, feedback |-> feedback,
     details |-> details, exc |-> ""]
\* a handler that reports an exception as a failed grade
Raises_AsFailedGrade(exc) ==
    [kind |-> "returned", passed |-> FALSE, feedback |-> <<W(exc)>>,
     details |-> PyNone, exc |-> ""]
Raises(exc) ==
    [kind |-> "raised", passed |-> FALSE, feedback |-> <<>>, details |-> PyNone,
     exc |-> exc]

\* a comparison that ignores a trailing newline on both sides
TrimNL(x) == IF Len(x) > 0 /\ x[Len(x)].k = "nl" THEN SubSeq(x, 1, Len(x) - 1) ELSE x
StdoutMatches_Trimmed(tests, out) ==
    out.returncode = 0 /\ TrimNL(out.stdout) = TrimNL(tests.expected)

\* ok = (out["returncode"] == 0 and out["stdout"] == tests.get("expected"))
StdoutMatches(tests, out) ==
    out.returncode = 0 /\ out.stdout = tests.expected

\* evaluate, branches "stdout" and "stdout_with_preset" after the runner
\* returned out; praise is "Great job!" or "Nice!"
GradeStdout(tests, out, praise) ==
    LET ok == StdoutMatches(tests, out)
        feedback ==
            IF ok THEN <<W(praise)>>
            ELSE <<W("Expected output: ")>> \o ReprText(tests.expected)
                 \o <<W(", but got: ")>> \o ReprText(out.stdout) \o <<W(". ")>>
                 \o (IF Len(out.stderr) > 0
                     THEN <<W("Error: ")>> \o out.stderr ELSE <<>>)
    IN EvaluateResult(ok, feedback, OutDetails(out))

\* run_user_code_and_eval after the runner returned out:
\* [raised, exc, data]
ParsePayload(out) ==
    LET text == IF Len(out.stdout) > 0 THEN out.stdout ELSE <<P("{"), P("}")>>
        \* try: data = json.loads(...) except json.JSONDecodeError: data = {...}
        Data(r) == IF r.ok THEN r.v
                   ELSE PyDict(<< <<"ok", PyBool(FALSE)>>,
                                  <<"error", IF Len(out.stderr) > 0
                                             THEN PyText(out.stderr)
                                             ELSE PyStr("Invalid output")>> >>)
        \* data["stderr"] = ...; data["returncode"] = ...; return data
        Attach(data) ==
            IF data.t # "dict"
            THEN [raised |-> TRUE, exc |-> "TypeError", data |-> data]
            ELSE [raised |-> FALSE, exc |-> "",
                  data |-> SetItem(SetItem(data, "stderr", PyText(out.stderr)),
                                   "returncode", PyInt(out.returncode))]
    IN With(With(JsonLoads(text), Data), Attach)

Join(msgs) ==
    LET RECURSIVE J(_)
        J(i) == IF i > Len(msgs) THEN <<>>
                ELSE (IF i > 1 THEN <<W("; ")>> ELSE <<>>) \o msgs[i] \o J(i + 1)
    IN J(1)

\* the loop of evaluate over res.get("results", []) or []:
\* [raised, exc, msgs]
FailureMessages(results) ==
    LET RECURSIVE F(_, _)
        F(i, msgs) ==
            IF i > Len(results) THEN [raised |-> FALSE, exc |-> "", msgs |-> msgs]
            ELSE LET r == results[i] IN
                 IF r.t # "dict"
                 THEN [raised |-> TRUE, exc |-> "AttributeError", msgs |-> msgs]
                 ELSE IF Truthy(Get(r, "pass")) THEN F(i + 1, msgs)
                 ELSE IF Has(r, "error")
                 THEN IF ~Has(r, "expr")
                      THEN [raised |-> TRUE, exc |-> "KeyError", msgs |-> msgs]
                      ELSE F(i + 1, Append(msgs,
                               StrText(Get(r, "expr")) \o <<W(": error ")>>
                               \o StrText(Get(r, "error"))))
                 ELSE IF ~Has(r, "expr") \/ ~Has(r, "expected") \/ ~Has(r, "value")
                      THEN [raised |-> TRUE, exc |-> "KeyError", msgs |-> msgs]
                      ELSE F(i + 1, Append(msgs,
                               StrText(Get(r, "expr")) \o <<W(": expected ")>>
                               \o ReprValue(Get(r, "expected")) \o <<W(", got ")>>
                               \o ReprValue(Get(r, "value"))))
    IN F(1, <<>>)

\* a feedback line that is the joined messages, whatever they are
Feedback_NoFallback(msgs) == Join(msgs)

\* feedback = "; ".join(msgs) if msgs else "Some tests failed."
Feedback(msgs) ==
    IF Len(msgs) > 0 THEN Join(msgs) ELSE <<W("Some tests failed.")>>

\* evaluate, branch "eval" after run_user_code_and_eval returned res
GradeEval(res) ==
    LET ok == Truthy(Get(res, "ok"))
        rs == Get(res, "results")
        \* f: the outcome of the loop over the results
        Failed(f) ==
            LET msgs == IF Len(f.msgs) = 0 /\ Truthy(Get(res, "error"))
                        THEN <<StrText(Get(res, "error"))>>
                        ELSE f.msgs
            IN IF f.raised THEN Raises(f.exc)
               ELSE EvaluateResult(FALSE, Feedback(msgs), res)
    IN IF ok THEN EvaluateResult(TRUE, <<W("All tests passed!")>>, res)
       ELSE IF Truthy(rs) /\ rs.t # "list"
            THEN Raises(IF rs.t \in {"str", "dict"} THEN "AttributeError"
                        ELSE "TypeError")
       ELSE With(FailureMessages(IF Truthy(rs) THEN rs.xs ELSE <<>>), Failed)

\* evaluate after the runner returned out, for test type ttype
Grade(tests, out) ==
    CASE tests.type = "stdout" -> GradeStdout(tests, out, "Great job!")
      [] tests.type = "stdout_with_preset" -> GradeStdout(tests, out, "Nice!")
      [] OTHER ->
           LET Parsed(d) == IF d.raised THEN Raises(d.exc)
                            ELSE With(d.data, GradeEval)
           IN With(ParsePayload(out), Parsed)


\* ------------------------------------------------------------------------
\* Inputs: the requests and candidate programs submitted
\* ------------------------------------------------------------------------
ForgedOk   == <<P("{"), QStr("ok"), P(":"), W("true"), P("}")>>
ForgedList == <<P("["), Num(1), P("]")>>
ForgedBadResults ==
    <<P("{"), QStr("ok"), P(":"), W("false"), P(","),
      QStr("results"), P(":"), P("["), Num(1), P("]"), P("}")>>

Candidates ==
    [ empty        |-> <<>>,
      hello        |-> <<PrintText(<<W("Hello, World!")>>)>>,
      hello_nonl   |-> <<WriteText(<<W("Hello, World!")>>)>>,
      hello_exit1  |-> <<PrintText(<<W("Hello, World!")>>), SysExit(1)>>,
      twelve       |-> <<PrintText(<<Num(12)>>)>>,
      sum_n        |-> <<PrintSum("n")>>,
      boom         |-> <<Raise("boom")>>,
      boom_empty   |-> <<Raise("")>>,
      exit1        |-> <<SysExit(1)>>,
      loop         |-> <<Loop>>,
      print_loop   |-> <<PrintText(<<W("Hello, World!")>>), Loop>>,
      syntax       |-> <<SyntaxErr>>,
      add          |-> <<Def("add", "sum")>>,
      add_print    |-> <<PrintText(<<W("debug")>>), Def("add", "sum")>>,
      add_zero     |-> <<Def("add", "zero")>>,
      add_nonneg   |-> <<Def("add", "sum_nonneg")>>,
      add_set      |-> <<Def("add", "set")>>,
      add_exit     |-> <<Def("add", "exit")>>,
      add_loop     |-> <<Def("add", "loop")>>,
      add_printing |-> <<Def("add", "print_sum")>>,
      add_raise    |-> <<Def("add", "raise_empty")>>,
      greet        |-> <<Def("greet", "greet")>>,
      flags        |-> <<Def("flag", "true"), Def("nothing", "none")>>,
      plant_json   |-> <<PlantModule("json")>>,
      forge_ok     |-> <<PrintText(ForgedOk), SysExit(0)>>,
      forge_list   |-> <<PrintText(ForgedList), SysExit(0)>>,
      forge_bad    |-> <<PrintText(ForgedBadResults), SysExit(0)>> ]

CandidateNames == DOMAIN Candidates

\* <<chapter_id, exercise_id>> of the requests
Requests ==
    { <<"basics", "print-hello">>, <<"basics", "variables-sum">>,
      <<"functions", "def-add">>, <<"functions", "def-greet">>,
      <<"loops", "sum-1-to-n">>,
      <<"nope", "print-hello">>, <<"basics", "def-add">>,
      <<"extra", "quiz">>, <<"extra", "def-flag">> }

\* ------------------------------------------------------------------------
\* State
\* ------------------------------------------------------------------------
Procs == {1, 2}       \* request slots of the server
MaxFiles == 2         \* names the temporary directory can hold
Paths == 1..MaxFiles

VARIABLES
    catalog,     \* the module-level list CHAPTERS
    active,      \* the request slots in use
    pc,          \* where each call of evaluate stands
    req,         \* the EvaluateRequest of each call
    ex,          \* the exercise find_exercise returned
    final_code,  \* run_user_code_capture_stdout: final_code
    tmp_path,    \* run_user_code_capture_stdout: tmp_path (0: no file yet)
    pending,     \* what the try block of the runner left: a return value
                 \* or an exception in flight
    files,       \* the temporary directory: path -> content
    modules,     \* the temporary directory: modules planted by candidates
    child,       \* the interpreter process of each call
    result       \* what each call of evaluate produced

vars == <<catalog, active, pc, req, ex, final_code, tmp_path, pending, files,
          modules, child, result>>

NoRequest == [chapter_id |-> "", exercise_id |-> "", code |-> <<>>, name |-> ""]
NoPending == [kind |-> "none", out |-> NoOut, exc |-> ""]
Return(out) == [kind |-> "return", out |-> out, exc |-> ""]
InFlight(exc) == [kind |-> "raise", out |-> NoOut, exc |-> exc]

Init ==
    /\ catalog \in Catalogs
    /\ active = {1}
    /\ pc = [p \in Procs |-> "idle"]
    /\ req = [p \in Procs |-> NoRequest]
    /\ ex = [p \in Procs |-> NoExercise]
    /\ final_code = [p \in Procs |-> <<>>]
    /\ tmp_path = [p \in Procs |-> 0]
    /\ pending = [p \in Procs |-> NoPending]
    /\ files = [f \in {} |-> <<>>]
    /\ modules = {}
    /\ child = [p \in Procs |-> NoChild]
    /\ result = [p \in Procs |-> NoResult]

\* a lookup by exercise id alone, in whatever chapter has it
find_exercise_AnyChapter(chapter_id, exercise_id) ==
    LET hits == { <<c, e>> \in (1..Len(catalog)) \X (1..3) :
                    /\ e <= Len(catalog[c].exercises)
                    /\ catalog[c].exercises[e].id = exercise_id }
    IN IF hits = {} THEN NoExercise
       ELSE LET h == CHOOSE h \in hits :
                       \A g \in hits : h[1] < g[1] \/ (h[1] = g[1] /\ h[2] <= g[2])
            IN catalog[h[1]].exercises[h[2]]

\* find_exercise reads the module-level catalog
find_exercise(chapter_id, exercise_id) ==
    LET hits == { <<c, e>> \in (1..Len(catalog)) \X (1..3) :
                    /\ e <= Len(catalog[c].exercises)
                    /\ catalog[c].id = chapter_id
                    /\ catalog[c].exercises[e].id = exercise_id }
    IN IF hits = {} THEN NoExercise
       ELSE LET h == CHOOSE h \in hits :
                       \A g \in hits : h[1] < g[1] \/ (h[1] = g[1] /\ h[2] <= g[2])
            IN catalog[h[1]].exercises[h[2]]

\* call p of evaluate is in progress and stands at label
At(p, label) == p \in active /\ pc[p] = label

\* ------------------------------------------------------------------------
\* evaluate, up to the call of the runner
\* ------------------------------------------------------------------------
EvaluateStart(p, r, cname) ==
    LET code  == Candidates[cname]
        found == find_exercise(r[1], r[2])
        tests == found.tests
    IN
    /\ At(p, "idle")
    /\ req' = [req EXCEPT ![p] = [chapter_id |-> r[1], exercise_id |-> r[2],
                                  code |-> code, name |-> cname]]
    /\ ex' = [ex EXCEPT ![p] = found]
    /\ tmp_path' = [tmp_path EXCEPT ![p] = 0]
    /\ pending' = [pending EXCEPT ![p] = NoPending]
    /\ child' = [child EXCEPT ![p] = NoChild]
    /\ IF found.id = ""                   \* if not ex: raise HTTPException(404)
       THEN /\ result' = [result EXCEPT ![p] = Raises("HTTP404")]
            /\ pc' = [pc EXCEPT ![p] = "done"]
            /\ final_code' = [final_code EXCEPT ![p] = <<>>]
       ELSE IF tests.type \in {"stdout", "stdout_with_preset", "eval"}
       THEN /\ result' = [result EXCEPT ![p] = NoResult]
            /\ pc' = [pc EXCEPT ![p] = "create"]
            /\ final_code' = [final_code EXCEPT ![p] =
                 CASE tests.type = "stdout" -> FinalCode(<<>>, code)
                   [] tests.type = "stdout_with_preset" ->
                        FinalCode(tests.preset, code)
                   [] OTHER -> FinalCode(<<>>, Harness(code, tests.checks))]
       ELSE /\ result' = [result EXCEPT ![p] = Raises("HTTP400")]
            /\ pc' = [pc EXCEPT ![p] = "done"]
            /\ final_code' = [final_code EXCEPT ![p] = <<>>]
    /\ UNCHANGED <<modules, catalog, active, files>>

\* ------------------------------------------------------------------------
\* run_user_code_capture_stdout
\* ------------------------------------------------------------------------
\* a temporary directory that hands out a name whether or not it is taken
FreePaths_Taken == Paths

\* the names no file of the temporary directory has
FreePaths == Paths \ DOMAIN files

\* tempfile.NamedTemporaryFile("w", suffix=".py", delete=False): a new,
\* uniquely named, empty file
CreateFile(p) ==
    /\ At(p, "create")
    /\ FreePaths # {}
    /\ LET path == CHOOSE f \in FreePaths : \A g \in FreePaths : f <= g IN
       /\ files' = [f \in (DOMAIN files) \cup {path} |->
                      IF f = path THEN <<>> ELSE files[f]]
       /\ tmp_path' = [tmp_path EXCEPT ![p] = path]
    /\ pc' = [pc EXCEPT ![p] = "write"]
    /\ UNCHANGED <<modules, catalog, active, req, ex, final_code, pending,
                   child, result>>

\* NamedTemporaryFile raises: the exception leaves the runner and evaluate
CreateFails(p) ==
    /\ At(p, "create")
    /\ result' = [result EXCEPT ![p] = Raises("OSError")]
    /\ pc' = [pc EXCEPT ![p] = "done"]
    /\ UNCHANGED <<modules, catalog, active, req, ex, final_code, tmp_path,
                   pending, files, child>>

\* tmp.write(final_code); tmp_path = tmp.name; the with block closes the file
WriteFile(p) ==
    /\ At(p, "write")
    /\ files' = [files EXCEPT ![tmp_path[p]] = final_code[p]]
    /\ pc' = [pc EXCEPT ![p] = "spawn"]
    /\ UNCHANGED <<modules, catalog, active, req, ex, final_code, tmp_path,
                   pending, child, result>>

\* tmp.write (or the flush on close) raises: the with block closes the file,
\* which was opened with delete=False, and the exception leaves the runner
\* before its try statement is entered
WriteFails(p) ==
    /\ At(p, "write")
    /\ result' = [result EXCEPT ![p] = Raises("OSError")]
    /\ pc' = [pc EXCEPT ![p] = "done"]
    /\ UNCHANGED <<modules, catalog, active, req, ex, final_code, tmp_path,
                   pending, files, child>>

\* subprocess.run([PYTHON_EXEC, "-S", tmp_path], ...): the process starts
\* and the interpreter reads its file
Spawn(p) ==
    /\ At(p, "spawn")
    /\ child' = [child EXCEPT ![p] =
                   IF tmp_path[p] \in DOMAIN files
                   THEN StartChild(files[tmp_path[p]])
                   ELSE ExitChild([StartChild(<<>>) EXCEPT
                                     !.err = <<W("can't open file"), NL>>], 2)]
    /\ pc' = [pc EXCEPT ![p] = "wait"]
    /\ UNCHANGED <<modules, catalog, active, req, ex, final_code, tmp_path,
                   pending, files, result>>

\* subprocess.run raises because the interpreter cannot be started
SpawnFails(p) ==
    /\ At(p, "spawn")
    /\ pending' = [pending EXCEPT ![p] = InFlight("FileNotFoundError")]
    /\ pc' = [pc EXCEPT ![p] = "finally"]
    /\ UNCHANGED <<modules, catalog, active, req, ex, final_code, tmp_path,
                   files, child, result>>

\* the child interpreter takes one step
ChildRun(p) ==
    /\ At(p, "wait")
    /\ child[p].state = "running"
    /\ child' = [child EXCEPT ![p] =
                   ChildStep(IF AtImport(child[p]) THEN Import(child[p], modules)
                             ELSE child[p])]
    /\ modules' = modules \cup Planted(child[p])
    /\ UNCHANGED <<catalog, active, pc, req, ex, final_code, tmp_path,
                   pending, files, result>>

\* the child exited before the timeout: return {"returncode": ..., ...}
Collect(p) ==
    /\ At(p, "wait")
    /\ child[p].state = "exited"
    /\ pending' = [pending EXCEPT ![p] =
                     Return(ExecutionResult(child[p].rc, child[p].out, child[p].err))]
    /\ pc' = [pc EXCEPT ![p] = "finally"]
    /\ UNCHANGED <<modules, catalog, active, req, ex, final_code, tmp_path,
                   files, child, result>>

\* a runner that hands back what the killed child had written
TimeoutResult_Partial(c) ==
    ExecutionResult(124, c.out, <<W("Execution timed out")>> \o c.err)

\* except subprocess.TimeoutExpired: the value returned for the killed child c
TimeoutResult(c) == TimeoutSentinel

\* a runner whose wait has no upper bound
TimeoutApplies_Never(c) == FALSE

\* timeout=timeout: the wait for child c is bounded while c has not exited
TimeoutApplies(c) == c.state \in {"running", "looping"}

\* the timeout elapses first: subprocess.run kills the child and raises
\* TimeoutExpired, which the runner turns into the sentinel
Timeout(p) ==
    /\ At(p, "wait")
    /\ TimeoutApplies(child[p])
    /\ child' = [child EXCEPT ![p].state = "killed"]
    /\ pending' = [pending EXCEPT ![p] = Return(TimeoutResult(child[p]))]
    /\ pc' = [pc EXCEPT ![p] = "finally"]
    /\ UNCHANGED <<modules, catalog, active, req, ex, final_code, tmp_path,
                   files, result>>

\* finally: os.remove(tmp_path) (an error of os.remove is swallowed); then
\* the runner returns or re-raises, and evaluate grades what it returned
Finally(p) ==
    /\ At(p, "finally")
    /\ files' = [f \in (DOMAIN files) \ {tmp_path[p]} |-> files[f]]
    /\ result' = [result EXCEPT ![p] =
                    IF pending[p].kind = "raise" THEN Raises(pending[p].exc)
                    ELSE Grade(ex[p].tests, pending[p].out)]
    /\ pc' = [pc EXCEPT ![p] = "done"]
    /\ UNCHANGED <<modules, catalog, active, req, ex, final_code, tmp_path,
                   pending, child>>

\* the response has been sent; the slot serves the next request
NextRequest(p) ==
    /\ At(p, "done")
    /\ pc' = [pc EXCEPT ![p] = "idle"]
    /\ req' = [req EXCEPT ![p] = NoRequest]
    /\ ex' = [ex EXCEPT ![p] = NoExercise]
    /\ final_code' = [final_code EXCEPT ![p] = <<>>]
    /\ tmp_path' = [tmp_path EXCEPT ![p] = 0]
    /\ pending' = [pending EXCEPT ![p] = NoPending]
    /\ child' = [child EXCEPT ![p] = NoChild]
    /\ result' = [result EXCEPT ![p] = NoResult]
    /\ UNCHANGED <<modules, catalog, active, files>>

Next ==
    \E p \in Procs :
        \/ \E r \in Requests, cname \in CandidateNames : EvaluateStart(p, r, cname)
        \/ CreateFile(p)
        \/ CreateFails(p)
        \/ WriteFile(p)
        \/ WriteFails(p)
        \/ Spawn(p)
        \/ SpawnFails(p)
        \/ ChildRun(p)
        \/ Collect(p)
        \/ Timeout(p)
        \/ Finally(p)
        \/ NextRequest(p)

Spec == Init /\ [][Next]_vars


\* The scheduling the code relies on: every step of a call is a blocking
\* call that completes, the child interpreter keeps running while it can,
\* and subprocess.run enforces its wall-clock timeout.
Fairness ==
    \A p \in Procs :
        /\ WF_vars(CreateFile(p) \/ CreateFails(p))
        /\ WF_vars(WriteFile(p) \/ WriteFails(p))
        /\ WF_vars(Spawn(p) \/ SpawnFails(p))
        /\ WF_vars(ChildRun(p) \/ Collect(p) \/ Timeout(p))
        /\ WF_vars(Finally(p))

FairSpec == Spec /\ Fairness

\* ------------------------------------------------------------------------
\* Two calls of evaluate at the same time.  FastAPI runs a "def" endpoint in
\* a thread pool, so two requests execute evaluate concurrently; both slots
\* are in use, and the steps of the two calls interleave freely.
\* ------------------------------------------------------------------------
ConcRequests ==
    { <<"basics", "print-hello">>, <<"basics", "variables-sum">>,
      <<"functions", "def-add">> }
ConcCandidates == {"hello", "twelve", "print_loop", "add"}

ConcInit ==
    /\ catalog = CHAPTERS
    /\ active = Procs
    /\ pc = [p \in Procs |-> "idle"]
    /\ req = [p \in Procs |-> NoRequest]
    /\ ex = [p \in Procs |-> NoExercise]
    /\ final_code = [p \in Procs |-> <<>>]
    /\ tmp_path = [p \in Procs |-> 0]
    /\ pending = [p \in Procs |-> NoPending]
    /\ files = [f \in {} |-> <<>>]
    /\ modules = {}
    /\ child = [p \in Procs |-> NoChild]
    /\ result = [p \in Procs |-> NoResult]

ConcNext ==
    \E p \in Procs :
        \/ \E r \in ConcRequests, cname \in ConcCandidates :
               EvaluateStart(p, r, cname)
        \/ CreateFile(p)
        \/ CreateFails(p)
        \/ WriteFile(p)
        \/ WriteFails(p)
        \/ Spawn(p)
        \/ SpawnFails(p)
        \/ ChildRun(p)
        \/ Collect(p)
        \/ Timeout(p)
        \/ Finally(p)
        \/ NextRequest(p)

ConcSpec == ConcInit /\ [][ConcNext]_vars

\* ------------------------------------------------------------------------
\* Properties
\* ------------------------------------------------------------------------
Done(p) == p \in active /\ pc[p] = "done"
Returned(p) == Done(p) /\ result[p].kind = "returned"
TestType(p) == ex[p].tests.type
StdoutType(p) == TestType(p) \in {"stdout", "stdout_with_preset"}
EvalType(p) == TestType(p) = "eval"
\* the runner of call p returned (it did not raise)
RunnerReturned(p) == pending[p].kind = "return"
TimedOut(p) == child[p].state = "killed"
\* the harness of call p loaded the candidate code and entered its loop
Loaded(p) == EvalType(p) /\ child[p].hpc = "checks"
Checks(p) == ex[p].tests.checks
\* some token of the text has at least one character
NonEmptyText(x) == \E i \in 1..Len(x) : x[i].k # "w" \/ x[i].s # ""

\* C1: once run_user_code_capture_stdout has created its temporary file,
\* the file no longer exists when the call has returned or raised.
C1_TempFileRemoved ==
    \A p \in Procs :
        Done(p) /\ tmp_path[p] # 0 => tmp_path[p] \notin DOMAIN files

\* C2: when the timeout elapses before the child exits, the runner returns
\* (does not raise) the sentinel: status 124, empty stdout, the explanatory
\* stderr, and nothing the child wrote.
C2_TimeoutSentinel ==
    \A p \in Procs :
        TimedOut(p) =>
            /\ RunnerReturned(p)
            /\ pending[p].out.returncode = 124
            /\ Len(pending[p].out.stdout) = 0
            /\ pending[p].out.stderr = <<W("Execution timed out")>>

\* a call timed out after its child had written to stdout
C2_Witness ==
    \E p \in Procs :
        Done(p) /\ TimedOut(p) /\ Len(child[p].out) > 0 /\ RunnerReturned(p)

\* the GradeResult carries the timeout: status 124 and the sentinel's text
TimeoutIndicated(r) ==
    /\ r.details.t = "dict"
    /\ Get(r.details, "returncode") = PyInt(124)
    /\ Get(r.details, "stderr") = PyText(<<W("Execution timed out")>>)

\* C3: a call whose child never terminates leads to a returned GradeResult
\* with passed = false that carries the timeout indication, for every test
\* type; and every call that reached the runner comes to an end.
C3_NonTerminatingReturns ==
    \A p \in Procs :
        /\ (At(p, "wait") /\ child[p].state = "looping")
              ~> (Returned(p) /\ ~result[p].passed /\ TimeoutIndicated(result[p]))
        /\ At(p, "create") ~> Done(p)

\* an eval call whose check expression looped forever has returned
C3_Witness ==
    \E p \in Procs :
        /\ Returned(p) /\ EvalType(p) /\ TimedOut(p)
        /\ req[p].name = "add_loop" /\ child[p].hpc = "checks"
        /\ ~result[p].passed

\* C4: for the stdout test types, passed is true exactly when the child
\* exited with status 0 and wrote exactly the expected text.
C4_ExactStdout ==
    \A p \in Procs :
        Returned(p) /\ StdoutType(p) =>
            (result[p].passed <=>
                /\ child[p].state = "exited"
                /\ child[p].rc = 0
                /\ child[p].out = ex[p].tests.expected)

\* the child wrote the expected text without its trailing newline, exited
\* with status 0, and the call failed
C4_Witness ==
    \E p \in Procs :
        /\ Returned(p) /\ StdoutType(p) /\ ~result[p].passed
        /\ child[p].state = "exited" /\ child[p].rc = 0
        /\ child[p].out \o <<NL>> = ex[p].tests.expected

\* the candidate itself wrote nothing to stdout: the child's stdout is empty
\* or is one JSON document
OnlyHarnessWrote(p) ==
    Len(child[p].out) = 0 \/ JsonLoads(child[p].out).ok

\* C5: in eval mode, whenever the candidate code loaded (the run did not
\* time out and the candidate wrote nothing to stdout itself), the payload
\* has one result per check, in check order.
C5_OneResultPerCheck ==
    \A p \in Procs :
        Done(p) /\ Loaded(p) /\ ~TimedOut(p) /\ OnlyHarnessWrote(p) =>
            /\ result[p].kind = "returned"
            /\ LET rs == Get(result[p].details, "results") IN
               /\ rs.t = "list"
               /\ Len(rs.xs) = Len(Checks(p))
               /\ \A i \in 1..Len(rs.xs) :
                     /\ rs.xs[i].t = "dict"
                     /\ Get(rs.xs[i], "expr") = Get(Checks(p)[i], "expr")

\* C6: once the runner has returned (no transport failure), evaluate
\* returns a GradeResult whatever the child did; it does not raise.
C6_NeverRaisesOnChildOutput ==
    \A p \in Procs :
        Done(p) /\ RunnerReturned(p) => result[p].kind = "returned"

\* the harness of call p evaluated every check and every check passed
AllChecksPassed(p) ==
    /\ Loaded(p)
    /\ Len(child[p].results) = Len(Checks(p))
    /\ \A i \in 1..Len(Checks(p)) :
          /\ Get(child[p].results[i], "expr") = Get(Checks(p)[i], "expr")
          /\ Has(child[p].results[i], "value")
          /\ PyEq(Get(child[p].results[i], "value"), Get(Checks(p)[i], "equals"))

\* C7: in eval mode a candidate that loads and satisfies every check is
\* graded passed = true, whether or not it also writes to stdout.
C7_PrintingDoesNotCorrupt ==
    \A p \in Procs :
        Done(p) /\ RunnerReturned(p) /\ ~TimedOut(p) /\ AllChecksPassed(p) =>
            result[p].kind = "returned" /\ result[p].passed

\* C8: in eval mode passed = true only if every check of the exercise was
\* evaluated in the candidate's namespace and gave its expected value.
C8_PassedOnlyByChecks ==
    \A p \in Procs :
        Returned(p) /\ EvalType(p) /\ result[p].passed => AllChecksPassed(p)

\* the stdout the runner returned to run_user_code_and_eval is missing or
\* is not one JSON document
Unparseable(p) ==
    Len(pending[p].out.stdout) = 0 \/ ~JsonLoads(pending[p].out.stdout).ok

\* C9: in eval mode, when the harness's stdout is missing or unparseable,
\* the payload is ok = false, error "Invalid output", results = [], with
\* the raw stderr attached.
C9_InvalidOutputPayload ==
    \A p \in Procs :
        Done(p) /\ EvalType(p) /\ RunnerReturned(p) /\ Unparseable(p) =>
            /\ result[p].kind = "returned"
            /\ Get(result[p].details, "ok") = PyBool(FALSE)
            /\ Get(result[p].details, "error") = PyStr("Invalid output")
            /\ Get(result[p].details, "results") = PyList(<<>>)
            /\ Get(result[p].details, "stderr") = PyText(pending[p].out.stderr)

\* C10: every returned GradeResult with passed = false has non-empty
\* feedback.
C10_FeedbackNonEmpty ==
    \A p \in Procs :
        Returned(p) /\ ~result[p].passed =>
            Len(result[p].feedback) > 0 /\ NonEmptyText(result[p].feedback)

\* an eval call failed with an empty top-level error message and no
\* per-check result
C10_Witness ==
    \E p \in Procs :
        /\ Returned(p) /\ EvalType(p) /\ ~result[p].passed
        /\ Get(result[p].details, "error") = PyStr("")
        /\ Get(result[p].details, "results") = PyList(<<>>)

\* the payload of call p lists no per-check entry that failed
NoFailingEntry(p) ==
    LET rs == Get(result[p].details, "results") IN
    rs.t # "list" \/ \A i \in 1..Len(rs.xs) :
                        rs.xs[i].t = "dict" /\ Truthy(Get(rs.xs[i], "pass"))

\* C11: a failing eval result without a failing per-check entry has the
\* top-level error text as feedback when there is one, and otherwise the
\* raw stderr of the run whenever that is not empty.
C11_FallbackFeedback ==
    \A p \in Procs :
        Returned(p) /\ EvalType(p) /\ ~result[p].passed /\ NoFailingEntry(p) =>
            LET err    == Get(result[p].details, "error")
                stderr == Get(result[p].details, "stderr")
            IN IF Truthy(err) THEN result[p].feedback = StrText(err)
               ELSE Truthy(stderr) => result[p].feedback = StrText(stderr)

\* the catalog has the exercise call p asked for, in the chapter it named
InCatalog(p) ==
    \E c \in 1..Len(catalog) :
        /\ catalog[c].id = req[p].chapter_id
        /\ \E e \in 1..Len(catalog[c].exercises) :
              catalog[c].exercises[e].id = req[p].exercise_id
KnownTestType(p) == TestType(p) \in {"stdout", "stdout_with_preset", "eval"}

\* C12: a call for an unknown chapter, for an unknown exercise of a known
\* chapter, or for an exercise of unknown test type ends with the not-found
\* or invalid-request error, without a GradeResult, and has created no
\* temporary file and spawned no process.
C12_RejectedBeforeExecution ==
    \A p \in Procs :
        Done(p) /\ (~InCatalog(p) \/ ~KnownTestType(p)) =>
            /\ result[p].kind = "raised"
            /\ result[p].exc = (IF InCatalog(p) THEN "HTTP400" ELSE "HTTP404")
            /\ tmp_path[p] = 0
            /\ child[p].state = "none"
            /\ pending[p].kind = "none"

\* a call for an exercise of unknown test type was rejected while the
\* catalog holds it
C12_Witness ==
    \E p \in Procs :
        Done(p) /\ InCatalog(p) /\ TestType(p) = "quiz" /\ result[p].exc = "HTTP400"

\* call p reached the runner, and the runner did not return: the temporary
\* file could not be created or written, or subprocess.run raised
TransportFailed(p) ==
    Done(p) /\ InCatalog(p) /\ KnownTestType(p) /\ ~RunnerReturned(p)

\* C13: when the runner cannot create or write its file or cannot start
\* the interpreter, the exception leaves the runner and evaluate; a call
\* returns a GradeResult only when its runner returned.
C13_TransportFailurePropagates ==
    \A p \in Procs :
        /\ TransportFailed(p) =>
              /\ result[p].kind = "raised"
              /\ result[p].exc \in {"OSError", "FileNotFoundError"}
        /\ Returned(p) => RunnerReturned(p) /\ child[p].state \in {"exited", "killed"}

\* the interpreter of an eval call could not be started: the file was
\* written and removed again, and the call raised
C13_Witness ==
    \E p \in Procs :
        /\ TransportFailed(p) /\ EvalType(p) /\ pending[p].exc = "FileNotFoundError"
        /\ tmp_path[p] # 0 /\ result[p].kind = "raised"

\* call p has its temporary file and has not yet reached its finally clause
HoldsFile(p) == p \in active /\ pc[p] \in {"write", "spawn", "wait"}

\* C14: while two calls run at the same time, they hold different temporary
\* files; the file a call is about to execute exists and holds that call's
\* own program, whatever the other call has cleaned up; the child of a call
\* runs that call's program; and what a call's runner returns is the output
\* of its own child, or the timeout sentinel when its own child was killed.
C14_CallsDoNotInterfere ==
    \A p \in Procs :
        /\ \A q \in Procs \ {p} :
              HoldsFile(p) /\ HoldsFile(q) => tmp_path[p] # tmp_path[q]
        /\ HoldsFile(p) => tmp_path[p] \in DOMAIN files
        /\ At(p, "spawn") => files[tmp_path[p]] = final_code[p]
        /\ child[p].state # "none" => child[p].prog = final_code[p]
        /\ RunnerReturned(p) =>
              pending[p].out =
                 IF TimedOut(p) THEN TimeoutSentinel
                 ELSE ExecutionResult(child[p].rc, child[p].out, child[p].err)
        /\ Done(p) /\ RunnerReturned(p) =>
              result[p] = Grade(ex[p].tests, pending[p].out)

\* one call was killed by the timeout after its child had written output,
\* while the other call, started before the first one's cleanup, has its
\* child's output collected and its own file still in place
C14_Witness ==
    \E p \in Procs : \E q \in Procs \ {p} :
        /\ Done(p) /\ TimedOut(p) /\ Len(child[p].out) > 0
        /\ At(q, "finally") /\ child[q].state = "exited" /\ Len(child[q].out) > 0
        /\ tmp_path[p] # 0 /\ tmp_path[q] # 0 /\ tmp_path[p] # tmp_path[q]
        /\ DOMAIN files = {tmp_path[q]}

\* the child of eval call p ended while compiling or executing the candidate
\* code, before the harness entered its loop over the checks
LoadFailed(p) ==
    EvalType(p) /\ child[p].state = "exited" /\ child[p].hpc \in {"", "load"}

\* C15: in eval mode, when loading the candidate code fails, no check is
\* evaluated and the payload is ok = false with a top-level error message
\* and results = [].
C15_LoadFailurePayload ==
    \A p \in Procs :
        Done(p) /\ RunnerReturned(p) /\ LoadFailed(p) =>
            /\ Len(child[p].results) = 0
            /\ result[p].kind = "returned"
            /\ Get(result[p].details, "ok") = PyBool(FALSE)
            /\ Has(result[p].details, "error")
            /\ Get(result[p].details, "error").t \in {"str", "text"}
            /\ Get(result[p].details, "results") = PyList(<<>>)

\* C16: for an eval call that did not time out, the payload's ok is true
\* exactly when the candidate loaded and every check passed, passed equals
\* that ok, and the pass flag of a check result is true exactly when the
\* expression gave a value equal to the expected one.
C16_OkIffAllChecksPass ==
    \A p \in Procs :
        Returned(p) /\ EvalType(p) /\ ~TimedOut(p) =>
            /\ result[p].passed <=> Truthy(Get(result[p].details, "ok"))
            /\ Truthy(Get(result[p].details, "ok")) <=> AllChecksPassed(p)
            /\ \A i \in 1..Len(child[p].results) :
                  Truthy(Get(child[p].results[i], "pass")) <=>
                     /\ Has(child[p].results[i], "value")
                     /\ PyEq(Get(child[p].results[i], "value"),
                             Get(Checks(p)[i], "equals"))

\* C17: every result the harness appends has the keys expr, expected and
\* pass, and has exactly one of the keys value and error.
C17_CheckResultShape ==
    \A p \in Procs :
        \A i \in 1..Len(child[p].results) :
            LET r == child[p].results[i] IN
            /\ Has(r, "expr") /\ Has(r, "expected") /\ Has(r, "pass")
            /\ Has(r, "value") # Has(r, "error")

\* child c run to its end: until it has exited or hangs
RECURSIVE RunToEnd(_)
RunToEnd(c) == IF c.state = "running" THEN RunToEnd(ChildStep(c)) ELSE c

\* the GradeResult of call p's request when it is the first call the
\* server handles: the exercise looked up in the catalog, the program run
\* in a fresh interpreter to its end
FreshResult(p) ==
    LET tests == find_exercise(req[p].chapter_id, req[p].exercise_id).tests
        prog  == CASE tests.type = "stdout" -> FinalCode(<<>>, req[p].code)
                   [] tests.type = "stdout_with_preset" ->
                        FinalCode(tests.preset, req[p].code)
                   [] OTHER ->
                        FinalCode(<<>>, Harness(req[p].code, tests.checks))
        Graded(c) ==
            Grade(tests, IF c.state = "exited"
                         THEN ExecutionResult(c.rc, c.out, c.err)
                         ELSE TimeoutSentinel)
    IN With(RunToEnd(StartChild(prog)), Graded)

\* C18: whatever calls came before, a call that returns a GradeResult
\* (its run not cut short by the timeout) returns the passed value the same
\* request gets as the first call of the server; and the catalog stays one
\* of the catalogs the server started with.
C18_VerdictIndependentOfHistory ==
    /\ catalog \in Catalogs
    /\ \A p \in Procs :
          Returned(p) /\ ~TimedOut(p) => result[p].passed = FreshResult(p).passed

\* call p has passed the lookup and the dispatch of evaluate
Dispatched(p) ==
    p \in active /\ pc[p] # "idle" /\ InCatalog(p) /\ KnownTestType(p)
\* the preset evaluate passes to the runner for call p
PresetOf(p) ==
    IF TestType(p) = "stdout_with_preset" THEN ex[p].tests.preset ELSE <<>>

\* C19: from the moment the runner is invoked, the program of a call is the
\* preset (the exercise's for stdout_with_preset, empty otherwise), a line
\* break, and then the candidate code or, for eval, the complete harness
\* text; the child runs exactly this program, and once it is past the
\* preset the names the preset assigns are bound in the one namespace the
\* candidate code runs in.
C19_PresetBeforeCandidate ==
    \A p \in Procs :
        Dispatched(p) =>
            /\ final_code[p] =
                  PresetOf(p) \o <<Blank>>
                  \o (IF EvalType(p) THEN Harness(req[p].code, Checks(p))
                      ELSE req[p].code)
            /\ child[p].state # "none" =>
                  /\ child[p].prog = final_code[p]
                  /\ child[p].ip > Len(PresetOf(p)) =>
                        \A i \in 1..Len(PresetOf(p)) :
                            PresetOf(p)[i].op = "assign" =>
                               /\ PresetOf(p)[i].name \in DOMAIN child[p].ns
                               /\ child[p].ns[PresetOf(p)[i].name] =
                                     IntBinding(PresetOf(p)[i].n)

\* a candidate that prints the sum of 1..n, with n bound by the preset
\* only, has passed the exercise with the preset
C19_Witness ==
    \E p \in Procs :
        /\ Returned(p) /\ TestType(p) = "stdout_with_preset"
        /\ req[p].name = "sum_n" /\ result[p].passed
        /\ child[p].out = <<Num(15), NL>>

\* the harness of call p has executed all of the candidate code
CandidateLoaded(p) ==
    /\ EvalType(p) /\ child[p].state # "none"
    /\ \/ child[p].hpc = "checks"
       \/ child[p].hpc = "load" /\ child[p].hip > Len(req[p].code)
\* every check of the exercise, evaluated in the namespace the candidate
\* code of call p left, gives its expected value
SatisfiesChecks(p) ==
    /\ CandidateLoaded(p)
    /\ \A i \in 1..Len(Checks(p)) :
          LET o == EvalExpr(Get(Checks(p)[i], "expr").s, child[p].ns) IN
          /\ o.kind = "value" /\ Len(o.out) = 0
          /\ PyEq(o.v, Get(Checks(p)[i], "equals"))

\* C20: the check list spliced into the harness text, read as the Python
\* source it is, denotes the check list of the exercise; and a candidate
\* that satisfies every check (and writes nothing itself) is graded
\* passed = true when its run is not cut short.
C20_HarnessDenotesChecks ==
    \A p \in Procs :
        Dispatched(p) /\ EvalType(p) =>
            /\ LET r == PyEvalLiteral(final_code[p][2].checks) IN
               r.ok /\ r.v = PyList(Checks(p))
            /\ Done(p) /\ RunnerReturned(p) /\ ~TimedOut(p)
                  /\ SatisfiesChecks(p) /\ OnlyHarnessWrote(p) =>
                     result[p].kind = "returned" /\ result[p].passed

====
